---- MODULE Spec2Model ----
(***************************************************************************)
(* OptunaStudy (src/optuna_lib.py): a wrapper holding an optimisation      *)
(* study and an objective function, with run, plot_trial_results and       *)
(* display_top_trials.  The study's trials, the arguments of the last call *)
(* and what that call raised, plotted and printed are the state.           *)
(***************************************************************************)
EXTENDS Integers, Sequences, FiniteSets, TLC

\* Largest number of trials a study holds in the model (run is not enabled beyond it).
MaxTrials == 3

----------------------------------------------------------------------------
(* Python values.  A cell is None, a number or a string; objective values   *)
(* are floats with one decimal and are kept in tenths (0.9 is Num(9)),      *)
(* which preserves their order.                                             *)

None == [k |-> "None", n |-> 0, s |-> ""]
Num(n) == [k |-> "num", n |-> n, s |-> ""]
Str(s) == [k |-> "str", n |-> 0, s |-> s]

(* A dict is the sequence of its items in insertion order.                  *)
KV(key, val) == [key |-> key, val |-> val]
Keys(d) == {d[i].key : i \in DOMAIN d}
KeyList(d) == [i \in DOMAIN d |-> d[i].key]
HasKey(d, key) == \E i \in DOMAIN d : d[i].key = key
Get(d, key) == d[CHOOSE i \in DOMAIN d : d[i].key = key].val

\* d[key] = val of a dict: a new key is appended, an existing key keeps its
\* position and takes the new value.
SetItem(d, key, val) ==
    IF HasKey(d, key)
    THEN [i \in DOMAIN d |-> IF d[i].key = key THEN KV(key, val) ELSE d[i]]
    ELSE Append(d, KV(key, val))

Min(a, b) == IF a < b THEN a ELSE b
Max(a, b) == IF a > b THEN a ELSE b

\* s[:n] of a list, a negative n counting from the end.
Take(s, n) ==
    IF n >= 0 THEN SubSeq(s, 1, Min(n, Len(s)))
    ELSE SubSeq(s, 1, Max(Len(s) + n, 0))

----------------------------------------------------------------------------
(* Trials.  A trial has a value (None when it failed or was pruned), the    *)
(* dict of its parameters and the dict of its user attributes.              *)

Trial(value, params, user_attrs) ==
    [value |-> value, params |-> params, user_attrs |-> user_attrs]

Context(c) == <<KV("context", c)>>

\* What one evaluation of the objective function can leave in the study: the
\* three trials of the end-to-end scenario (values 0.2, 0.9, 0.5), two trials
\* tied with them whose context also holds fields named "a" and "Objective
\* Value", a trial that recorded no "context", and a trial without a value.
ObjectiveOutcomes ==
    << Trial(Num(2), <<KV("a", Num(1))>>, Context(<<KV("tag", Str("x"))>>)),
       Trial(Num(9), <<KV("a", Num(2)), KV("b", Num(3))>>, Context(<<KV("tag", Str("y"))>>)),
       Trial(Num(5), <<KV("b", Num(4))>>, Context(<<KV("tag", Str("z"))>>)),
       Trial(Num(9), <<>>,
             Context(<<KV("tag", Str("x")), KV("a", Str("p")), KV("Objective Value", Num(1))>>)),
       Trial(Num(2), <<KV("b", Num(3)), KV("a", Num(1))>>,
             Context(<<KV("tag", Str("z")), KV("a", Str("r")), KV("Objective Value", Num(7))>>)),
       Trial(Num(5), <<>>, <<>>),
       Trial(None, <<KV("a", Num(1))>>, Context(<<KV("tag", Str("x"))>>)) >>

\* The context_fields arguments of display_top_trials.
FieldLists ==
    { <<>>, <<"tag">>, <<"a">>, <<"Objective Value">>,
      <<"tag", "tag">>, <<"tag", "a">> }

\* The top_N arguments of display_top_trials.
TopNs == (-1) .. MaxTrials

\* Iteration orders of a set of parameter names: fixed by the process's string
\* hashing, the same for every call of one process; either name may come first.
HashOrders == { <<"a", "b">>, <<"b", "a">> }

VARIABLES objective_f, trials, hashorder, call, outcome

vars == <<objective_f, trials, hashorder, call, outcome>>

----------------------------------------------------------------------------
(* sorted(self.study.trials, key=lambda x: x.value, reverse=True)           *)

\* Comparing None with a float or with None raises TypeError; a list of at
\* least two items has every item compared at least once, a shorter list is
\* returned without any comparison.
SortRaisesAlways(ts) == \E i \in DOMAIN ts : ts[i].value = None
SortRaises(ts) == Len(ts) >= 2 /\ \E i \in DOMAIN ts : ts[i].value = None

\* Index i put into the ranking s before the equal values already in it.
InsertDescUnstable(ts, s, i) ==
    LET ahead == Cardinality({j \in DOMAIN s : ts[s[j]].value.n > ts[i].value.n})
    IN SubSeq(s, 1, ahead) \o <<i>> \o SubSeq(s, ahead + 1, Len(s))

\* Index i put into the ranking s (indices into ts, by descending value):
\* behind every index whose value is greater or equal, so that equal values
\* keep the order of the list (the sort is stable, also with reverse=True).
InsertDesc(ts, s, i) ==
    LET ahead == Cardinality({j \in DOMAIN s : ts[s[j]].value.n >= ts[i].value.n})
    IN SubSeq(s, 1, ahead) \o <<i>> \o SubSeq(s, ahead + 1, Len(s))

RECURSIVE SortedPrefix(_, _)
SortedPrefix(ts, m) ==
    IF m = 0 THEN <<>> ELSE InsertDesc(ts, SortedPrefix(ts, m - 1), m)

\* A list back to front.
Reverse(s) == [i \in DOMAIN s |-> s[Len(s) + 1 - i]]

\* The same sort without reverse=True.
SortedAscending(ts) == Reverse(SortedPrefix(ts, Len(ts)))

\* sorted_trials, as the indices (1-based, chronological) of the trials.
SortedTrials(ts) == SortedPrefix(ts, Len(ts))

\* sorted_trials[-top_N:] in place of sorted_trials[:top_N].
TopLast(sorted_trials, top_N) ==
    SubSeq(sorted_trials, Len(sorted_trials) - Len(Take(sorted_trials, top_N)) + 1,
           Len(sorted_trials))

\* sorted_trials[:top_N]
Top(sorted_trials, top_N) == Take(sorted_trials, top_N)

----------------------------------------------------------------------------
(* The columns of top_trials_data.                                          *)

ObjectiveValues(ts, top) == [i \in DOMAIN top |-> ts[top[i]].value]

\* The parameter names of the whole study.
AllParamsOfStudy(ts, top) == UNION {Keys(ts[i].params) : i \in DOMAIN ts}

\* all_params: the parameter names of the top trials.
AllParams(ts, top) == UNION {Keys(ts[top[i]].params) : i \in DOMAIN top}

\* for param in all_params: the names of the set in the process's hash order.
SetIteration(order, S) ==
    LET In(x) == x \in S IN SelectSeq(order, In)

\* trial.params.get(param), without the default.
ParamColumnNoDefault(ts, top, param) ==
    [i \in DOMAIN top |->
        IF HasKey(ts[top[i]].params, param)
        THEN Get(ts[top[i]].params, param) ELSE None]

\* [trial.params.get(param, 'N/A') for trial in sorted_trials[:top_N]]
ParamColumn(ts, top, param) ==
    [i \in DOMAIN top |->
        IF HasKey(ts[top[i]].params, param)
        THEN Get(ts[top[i]].params, param) ELSE Str("N/A")]

\* [c[field] for c in contexts]
FieldColumn(contexts, field) == [i \in DOMAIN contexts |-> Get(contexts[i], field)]

\* A column added at the end whatever the keys of the dict.
AppendItem(d, key, val) == Append(d, KV(key, val))

\* top_trials_data[key] = val
SetColumn(d, key, val) == SetItem(d, key, val)

RECURSIVE AddParams(_, _, _, _)
AddParams(d, ts, top, names) ==
    IF names = <<>> THEN d
    ELSE AddParams(SetColumn(d, Head(names), ParamColumn(ts, top, Head(names))),
                   ts, top, Tail(names))

RECURSIVE AddFields(_, _, _)
AddFields(d, contexts, fields) ==
    IF fields = <<>> THEN d
    ELSE AddFields(SetColumn(d, Head(fields), FieldColumn(contexts, Head(fields))),
                   contexts, Tail(fields))

----------------------------------------------------------------------------
(* What a call leaves behind: the exception it raised ("none" when it       *)
(* returned), the trials it selected, the figures shown and the tables      *)
(* printed to standard output.                                              *)

Returned(selected, figure, stdout) ==
    [raised |-> "none", selected |-> selected, figure |-> figure, stdout |-> stdout]

\* The table built so far is printed before the exception leaves the call.
RaisedAfterPrint(error, selected, data) ==
    [raised |-> error, selected |-> selected, figure |-> <<>>, stdout |-> <<data>>]

\* An exception propagates out of the call: print(top_trials_df) is its last
\* statement and has not run.
Raised(error, selected, data) ==
    [raised |-> error, selected |-> selected, figure |-> <<>>, stdout |-> <<>>]

display_top_trials(ts, order, context_fields, top_N) ==
    IF SortRaises(ts) THEN Raised("TypeError", <<>>, <<>>)
    ELSE
    LET sorted_trials == SortedTrials(ts)
        top == Top(sorted_trials, top_N)
        data0 == <<KV("Objective Value", ObjectiveValues(ts, top))>>
    IN  IF \E i \in DOMAIN top : ~HasKey(ts[top[i]].user_attrs, "context")
        THEN Raised("KeyError", top, <<>>)
        ELSE
        LET contexts == [i \in DOMAIN top |-> Get(ts[top[i]].user_attrs, "context")]
            data1 == AddParams(data0, ts, top, SetIteration(order, AllParams(ts, top)))
        IN  IF \E j \in DOMAIN context_fields, i \in DOMAIN top :
                   ~HasKey(contexts[i], context_fields[j])
            THEN Raised("KeyError", top, data1)
            ELSE Returned(top, <<>>, <<AddFields(data1, contexts, context_fields)>>)

\* plt.scatter(range(1, len(objective_values) + 1), objective_values): the
\* points handed to the plotting backend.
Points(ts) == [i \in DOMAIN ts |-> [x |-> i, y |-> ts[i].value]]

\* The backend shows the figure; what it does with a None among the values
\* is its own (it drops the point or raises).
plot_trial_results(ts) ==
    {Returned(<<>>, <<Points(ts)>>, <<>>)}
    \cup (IF \E i \in DOMAIN ts : ts[i].value = None
          THEN {Raised("ValueError", <<>>, <<>>)} ELSE {})

----------------------------------------------------------------------------
(* study.optimize(objective_f, n_trials)                                    *)

\* The trials n_trials evaluations leave: n_trials of them, or fewer when an
\* evaluation raised (its trial is stored without a value and ends the run).
Evaluations(n_trials) ==
    LET Outcome(k) == [1 .. k -> 1 .. Len(ObjectiveOutcomes)]
    IN  { [i \in DOMAIN e |-> ObjectiveOutcomes[e[i]]] :
            e \in { f \in UNION {Outcome(k) : k \in 0 .. n_trials} :
                      \/ Len(f) = n_trials
                      \/ Len(f) >= 1 /\ ObjectiveOutcomes[f[Len(f)]].value = None } }

\* The new trials replace the study's.
Replaced(ts, new) == new

\* The study's trials after the new ones are appended.
Extended(ts, new) == ts \o new

\* self.study.trials.sort(...): the study's own list is reordered.
SortedInPlace(ts) ==
    IF SortRaises(ts) THEN ts ELSE [i \in DOMAIN ts |-> ts[SortedTrials(ts)[i]]]

\* sorted() builds a new list: the study's trials are as before the call.
TrialsAfterDisplay(ts) == ts

Call(op, n_trials, context_fields, top_N) ==
    [op |-> op, n_trials |-> n_trials, context_fields |-> context_fields, top_N |-> top_N]

Init ==
    /\ objective_f = "objective_f"
    /\ trials = <<>>
    /\ hashorder \in HashOrders
    /\ call = Call("__init__", 0, <<>>, 0)
    /\ outcome = Returned(<<>>, <<>>, <<>>)

Run ==
    \E n_trials \in 0 .. (MaxTrials - Len(trials)) :
      \E new \in Evaluations(n_trials) :
        /\ trials' = Extended(trials, new)
        /\ call' = Call("run", n_trials, <<>>, 0)
        /\ outcome' = Returned(<<>>, <<>>, <<>>)
        /\ UNCHANGED <<objective_f, hashorder>>

PlotTrialResults ==
    /\ call' = Call("plot_trial_results", 0, <<>>, 0)
    /\ outcome' \in plot_trial_results(trials)
    /\ UNCHANGED <<objective_f, trials, hashorder>>

DisplayTopTrials ==
    \E context_fields \in FieldLists, top_N \in TopNs :
        /\ call' = Call("display_top_trials", 0, context_fields, top_N)
        /\ outcome' = display_top_trials(trials, hashorder, context_fields, top_N)
        /\ trials' = TrialsAfterDisplay(trials)
        /\ UNCHANGED <<objective_f, hashorder>>

Next == Run \/ PlotTrialResults \/ DisplayTopTrials

Spec == Init /\ [][Next]_vars

----------------------------------------------------------------------------
(* Vocabulary of the properties.                                            *)

N == Len(trials)
Displayed == call.op = "display_top_trials"
Printed == Displayed /\ outcome.raised = "none" /\ Len(outcome.stdout) = 1
Table == outcome.stdout[1]
Rows == outcome.selected
Fields == {call.context_fields[j] : j \in DOMAIN call.context_fields}
AllValued == \A i \in DOMAIN trials : trials[i].value # None
SomeUnvalued == \E i \in DOMAIN trials : trials[i].value = None
Val(i) == trials[i].value.n
Shown == {Rows[r] : r \in DOMAIN Rows}
NotShown == DOMAIN trials \ Shown
ShownParams == UNION {Keys(trials[i].params) : i \in Shown}
NonIncreasing(col) ==
    \A i, j \in DOMAIN col :
        i < j => col[i].k = "num" /\ col[j].k = "num" /\ col[i].n >= col[j].n
EveryColumnHas(n) == \A c \in DOMAIN Table : Len(Table[c].val) = n
LacksContext(i) == ~HasKey(trials[i].user_attrs, "context")
LacksField(i) ==
    \/ LacksContext(i)
    \/ \E f \in Fields : ~HasKey(Get(trials[i].user_attrs, "context"), f)
ContextValues(f) == [r \in DOMAIN Rows |-> Get(Get(trials[Rows[r]].user_attrs, "context"), f)]
OwnOrNA(p) ==
    [r \in DOMAIN Rows |->
        IF HasKey(trials[Rows[r]].params, p)
        THEN Get(trials[Rows[r]].params, p) ELSE Str("N/A")]
Perms(S) == {q \in [1 .. Cardinality(S) -> S] : \A x \in S : \E i \in DOMAIN q : q[i] = x}

\* The requested fields that open a column of their own, in the caller's
\* order: not a repetition, not the name of a column the table already has.
NewFieldColumns ==
    LET Opens(j) ==
          /\ call.context_fields[j] \notin {"Objective Value"} \cup ShownParams
          /\ \A h \in 1 .. (j - 1) : call.context_fields[h] # call.context_fields[j]
        RECURSIVE From(_)
        From(j) ==
          IF j > Len(call.context_fields) THEN <<>>
          ELSE (IF Opens(j) THEN <<call.context_fields[j]>> ELSE <<>>) \o From(j + 1)
    IN From(1)

C1_Case == Displayed /\ AllValued /\ call.top_N >= N /\ \A i \in DOMAIN trials : ~LacksField(i)

----------------------------------------------------------------------------
(* C1 *)

----------------------------------------------------------------------------
(* C2 *)

\* C2 as stated: the parameter columns of the printed table are exactly the
\* parameter names of the displayed trials, and each shows, per row, the
\* trial's own value or "N/A" when the trial did not sample the parameter.
C2_AsStated ==
    Printed =>
        /\ ShownParams \subseteq Keys(Table)
        /\ Keys(Table) \ ({"Objective Value"} \cup Fields) \subseteq ShownParams
        /\ \A p \in ShownParams : Get(Table, p) = OwnOrNA(p)

\* C2 as amended: the same, for every parameter whose name is not also a
\* requested context field; a parameter column of a requested field's name
\* shows that field's context values instead.
C2_ParamColumns ==
    Printed =>
        /\ ShownParams \subseteq Keys(Table)
        /\ Keys(Table) \ ({"Objective Value"} \cup Fields) \subseteq ShownParams
        /\ \A p \in ShownParams :
             Get(Table, p) = IF p \in Fields THEN ContextValues(p) ELSE OwnOrNA(p)

\* A displayed trial lacks a parameter another displayed trial has, and a
\* trial that is not displayed has a parameter no displayed trial has.
C2_Witness ==
    /\ Printed
    /\ \E p \in ShownParams \ Fields :
         \E i, j \in Shown : HasKey(trials[i].params, p) /\ ~HasKey(trials[j].params, p)
    /\ \E i \in NotShown : ~(Keys(trials[i].params) \subseteq ShownParams)

----------------------------------------------------------------------------
(* C3 *)

\* C3: trials of equal objective value keep their chronological order, in the
\* rows of the table and at the top_N cut: of two tied trials the earlier one
\* is ranked first, so a displayed trial is never later than a tied trial
\* that is not displayed.
C3_StableTies ==
    Printed /\ AllValued =>
        /\ \A r, q \in DOMAIN Rows :
             r < q /\ Val(Rows[r]) = Val(Rows[q]) => Rows[r] < Rows[q]
        /\ \A i \in Shown, j \in NotShown : Val(i) = Val(j) => i < j

\* Two tied trials are displayed and a third trial tied with them is cut off.
C3_Witness ==
    /\ Printed /\ AllValued /\ N = 3 /\ Len(Rows) = 2
    /\ Val(1) = Val(2) /\ Val(2) = Val(3)

----------------------------------------------------------------------------
(* C4 *)

\* A selected trial lacks the "context" entry or a requested field: one of the
\* trials the call selected or, when the ranking itself raised, any trial a
\* call with top_N >= 1 could select, every trial of the study lacking one.
C4_Case ==
    /\ Displayed
    /\ \/ outcome.raised # "TypeError" /\ \E i \in Shown : LacksField(i)
       \/ /\ outcome.raised = "TypeError" /\ call.top_N >= 1
          /\ \A i \in DOMAIN trials : LacksField(i)

\* C4 as stated: the call then raises the missing-context error (KeyError) and
\* writes nothing to standard output.
C4_AsStated == C4_Case => outcome.raised = "KeyError" /\ outcome.stdout = <<>>

\* C4 as amended: the call then raises and writes nothing to standard output;
\* it raises the missing-context error (KeyError) unless the study holds two
\* or more trials one of which has no objective value, in which case the
\* ranking has already raised the missing-value error (TypeError).
C4_NoOutputOnMissingContext ==
    C4_Case =>
        /\ outcome.stdout = <<>>
        /\ outcome.raised = IF N >= 2 /\ SomeUnvalued THEN "TypeError" ELSE "KeyError"

\* The second selected trial lacks the second requested field.
C4_Witness ==
    /\ Displayed /\ outcome.raised = "KeyError"
    /\ Len(Rows) = 2 /\ Len(call.context_fields) = 2
    /\ ~LacksField(Rows[1]) /\ ~LacksContext(Rows[2])
    /\ HasKey(Get(trials[Rows[2]].user_attrs, "context"), call.context_fields[1])
    /\ ~HasKey(Get(trials[Rows[2]].user_attrs, "context"), call.context_fields[2])

----------------------------------------------------------------------------
(* C5 *)

\* A selected trial has no objective value: one of the trials the call
\* selected or, when every trial of the study has none, any trial a call with
\* top_N >= 1 selects.
C5_Case ==
    /\ Displayed
    /\ \/ outcome.raised # "TypeError" /\ \E i \in Shown : trials[i].value = None
       \/ N >= 1 /\ call.top_N >= 1 /\ \A i \in DOMAIN trials : trials[i].value = None

\* C5 as stated: the call then fails and prints no table, whatever the size of
\* the study.
C5_AsStated == C5_Case => outcome.raised # "none" /\ outcome.stdout = <<>>

\* C5 as amended: the call fails with the missing-value error (TypeError) and
\* prints no table exactly when the study holds at least two trials and any of
\* them, selected or not, has no objective value; a study whose only trial has
\* no value is ranked without error, and the trial, when selected and holding
\* the requested context, is displayed with None as its objective value.
C5_MissingValue ==
    Displayed =>
        /\ outcome.raised = "TypeError" <=> (N >= 2 /\ SomeUnvalued)
        /\ outcome.raised = "TypeError" => outcome.stdout = <<>>
        /\ N = 1 /\ SomeUnvalued /\ call.top_N >= 1 /\ ~LacksField(1) =>
             /\ Printed /\ Rows = <<1>>
             /\ "Objective Value" \notin Fields => Get(Table, "Objective Value") = <<None>>

\* Two trials, one without a value, and the call raised.
C5_Witness ==
    /\ Displayed /\ N = 2 /\ trials[1].value # None /\ trials[2].value = None
    /\ call.top_N = 1 /\ outcome.raised = "TypeError"

----------------------------------------------------------------------------
(* C6 *)

----------------------------------------------------------------------------
(* C7 *)

C7_Study ==
    << Trial(Num(2), <<KV("a", Num(1))>>, Context(<<KV("tag", Str("x"))>>)),
       Trial(Num(9), <<KV("a", Num(2)), KV("b", Num(3))>>, Context(<<KV("tag", Str("y"))>>)),
       Trial(Num(5), <<KV("b", Num(4))>>, Context(<<KV("tag", Str("z"))>>)) >>

C7_Call == Displayed /\ trials = C7_Study /\ call.context_fields = <<"tag">> /\ call.top_N = 2

\* C7: for the study with values [0.2, 0.9, 0.5], parameters {a:1}, {a:2,b:3},
\* {b:4} and contexts tag x, y, z, display_top_trials(["tag"], top_N=2) prints
\* exactly the rows (0.9, a=2, b=3, tag=y) and (0.5, a=N/A, b=4, tag=z), in
\* this order, with the parameter columns a and b (in either order).
C7_Scenario ==
    C7_Call =>
        /\ Printed
        /\ Rows = <<2, 3>>
        /\ \E q \in Perms({"a", "b"}) :
             KeyList(Table) = <<"Objective Value">> \o q \o <<"tag">>
        /\ Get(Table, "Objective Value") = <<Num(9), Num(5)>>
        /\ Get(Table, "a") = <<Num(2), Str("N/A")>>
        /\ Get(Table, "b") = <<Num(3), Num(4)>>
        /\ Get(Table, "tag") = <<Str("y"), Str("z")>>

C7_Witness == C7_Call /\ outcome.stdout # <<>>

----------------------------------------------------------------------------
(* C8 *)

----------------------------------------------------------------------------
(* C9 *)

\* C9: over every sequence of calls the study's trials only grow: a run of
\* n_trials appends at most n_trials trials behind the existing ones, exactly
\* n_trials when every new trial has a value, and no call removes, reorders or
\* changes a trial already in the study.
C9_GrowsOnly ==
    [][ /\ Len(trials') >= Len(trials)
        /\ SubSeq(trials', 1, Len(trials)) = trials
        /\ call'.op # "run" => trials' = trials
        /\ call'.op = "run" =>
             /\ Len(trials') - Len(trials) <= call'.n_trials
             /\ (\A i \in (Len(trials) + 1) .. Len(trials') : trials'[i].value # None)
                  => Len(trials') - Len(trials) = call'.n_trials ]_vars

\* A run of two trials behind a trial of an earlier run.
C9_Witness ==
    /\ call.op = "run" /\ call.n_trials = 2 /\ N = 3
    /\ trials[1].value.n < trials[2].value.n

----------------------------------------------------------------------------
(* C10 *)

\* C10: display_top_trials changes neither the study's trials nor the stored
\* objective function, whether it prints or raises; called again with the
\* same arguments and no run in between it leaves the same output; and what
\* it prints is computed from the study as it is at the call, every trial of
\* it being a row when top_N >= N.
C10_NoSideEffect ==
    /\ [][ call'.op = "display_top_trials" =>
             /\ trials' = trials
             /\ objective_f' = objective_f
             /\ call = call' => outcome' = outcome ]_vars
    /\ [](Printed /\ call.top_N >= N => Shown = DOMAIN trials)

\* Three trials, not in the order of their values, all displayed.
C10_Witness ==
    /\ Printed /\ N = 3 /\ Len(Rows) = 3 /\ Rows # <<1, 2, 3>>
    /\ call.context_fields = <<"tag">>

====
